---- MODULE Spec2Model ----
(***************************************************************************)
(* Diagnostic helpers of the DoubleML tutorial notebooks:                  *)
(*   pred_acc_irm        per-repetition RMSE / log-loss of the nuisance    *)
(*                       predictions of a fitted model                     *)
(*   rep_propscore_plot  per-repetition histogram of the propensity scores *)
(* in their Python variant (py_elasticity_analysis_tools.ipynb) and their  *)
(* R variant (R_double_ml_abtest_workflow.Rmd and its .ipynb rendering).   *)
(*                                                                         *)
(* Numbers.  Outcomes and regression predictions are integers.             *)
(* Probabilities are integers in units of 1/1000 (100 is 0.1).  Metrics    *)
(* are integers in units of 1/1000, rounded down (1414 is 1.414).          *)
(* Histogram bin edges are integers in units of 1/48000, the coarsest unit *)
(* in which the edges of both variants are whole numbers.                  *)
(*                                                                         *)
(* Arrays.  The fitted model stores each prediction array with three axes, *)
(* [observation, repetition, treatment]; arr[j][i][k] is modelled as a     *)
(* sequence of sequences of sequences, indices starting at 1 (the Python   *)
(* code counts from 0: its i is this model's i - 1).                       *)
(*                                                                         *)
(* State.  model is the fitted model object, call the helper call made on  *)
(* it, out what the call gave, env the global environment of the notebook  *)
(* session (the variables its cells have assigned).                        *)
(***************************************************************************)
EXTENDS Integers, Sequences, FiniteSets

VARIABLES model, call, out, env

vars == <<model, call, out, env>>

(***************************************************************************)
(* Bounds of the model and the sets the inputs are drawn from.             *)
(***************************************************************************)
MaxObs == 2
MaxRep == 2
MaxCols == 6
MaxRows == 3
MaxScored == 3
MaxConfounders == 3

YVals == {1, 2}
GVals == {1, 2}
DBinary == {0, 1}
DVals == {0, 1, 2}
\* propensity predictions: below range, 0, a bucket edge, interior values, 1, above range
MGrid == <<-20, 0, 40, 500, 900, 1000, 1020>>
TreatCounts == {1, 2, 3}
\* values of a row of the uplift data files
RowVals == {0, 1}
\* outcome entries handed to the uplift notebook's metric: labels, or NaN for an
\* observation the learner was not trained for (NaN encoded as -1)
NaN == 0 - 1
TrueVals == {NaN, 0, 1}
PredVals == {100, 500, 900}
\* PLR models: treatment values, fitted coefficients, nuisance names asked for
ThetaVals == {-1, 1, 2}
NuisNames == {"ml_l", "ml_m", "ml_g"}
\* column names of demand_data: the five named in the selection and two confounders
ColumnNames == {"Quantity", "revenue", "UnitPrice", "dLnP", "dLnQ", "month", "DoM"}

(***************************************************************************)
(* Arithmetic helpers.                                                     *)
(***************************************************************************)
Infinity == 1000 * 1000 * 1000

IsFinite(x) == x < Infinity

Max(a, b) == IF a >= b THEN a ELSE b

Min(a, b) == IF a <= b THEN a ELSE b

RECURSIVE SumSeq(_)
SumSeq(s) ==
    IF s = <<>> THEN 0
    ELSE LET rest == SumSeq(Tail(s))
         IN  IF Head(s) >= Infinity \/ rest >= Infinity THEN Infinity
             ELSE Head(s) + rest

\* the mean of a sequence of metric terms; infinite once a term is
Mean(s) == IF SumSeq(s) >= Infinity THEN Infinity ELSE SumSeq(s) \div Len(s)

RECURSIVE ISqrtBetween(_, _, _)
ISqrtBetween(x, lo, hi) ==
    IF lo >= hi THEN lo
    ELSE LET mid == (lo + hi + 1) \div 2
         IN  IF mid * mid <= x THEN ISqrtBetween(x, mid, hi)
             ELSE ISqrtBetween(x, lo, mid - 1)

\* floor of the square root
ISqrt(x) == ISqrtBetween(x, 0, 46340)

\* -1000 * ln(p / 1000), rounded; ln(0) is -infinity
NegLog(p) ==
    IF p <= 0 THEN Infinity
    ELSE IF p >= 1000 THEN 0
    ELSE CASE p = 20 -> 3912
           [] p = 25 -> 3689
           [] p = 40 -> 3219
           [] p = 100 -> 2303
           [] p = 480 -> 734
           [] p = 500 -> 693
           [] p = 520 -> 654
           [] p = 900 -> 105
           [] p = 960 -> 41
           [] p = 975 -> 25
           [] p = 980 -> 20

(***************************************************************************)
(* The fitted model object handed to the helpers (DoubleML / obj).        *)
(***************************************************************************)
\* the value next to p in MGrid, c steps on (cyclic): distinct columns
GridIndex(p) == CHOOSE x \in 1..Len(MGrid) : MGrid[x] = p

GridShift(p, c) == MGrid[((GridIndex(p) - 1 + c) % Len(MGrid)) + 1]

DmlModel(y, d, t, w, g0, g1, m) ==
    [y |-> y, d |-> d, n_obs |-> Len(y), n_rep |-> w, n_treat |-> t,
     ml_g0 |-> g0, ml_g1 |-> g1, ml_m |-> m]

\* one treatment, regression predictions varied, repetition i shifted by i - 1
GVaried(M) ==
    \E n \in 1..MaxObs, w \in 1..MaxRep :
        \E y \in [1..n -> YVals], d \in [1..n -> DBinary],
           b0 \in [1..n -> GVals], b1 \in [1..n -> GVals] :
            M = DmlModel(y, d, 1, w,
                         [j \in 1..n |-> [i \in 1..w |-> [k \in 1..1 |-> b0[j] + (i - 1)]]],
                         [j \in 1..n |-> [i \in 1..w |-> [k \in 1..1 |-> b1[j] + (i - 1)]]],
                         [j \in 1..n |-> [i \in 1..w |-> [k \in 1..1 |-> 500]]])

\* one treatment, propensity predictions varied
MVaried(M) ==
    \E n \in 1..MaxObs, w \in 1..MaxRep :
        \E d \in [1..n -> DBinary], pm \in [1..n -> {MGrid[x] : x \in 1..Len(MGrid)}] :
            M = DmlModel([j \in 1..n |-> 1], d, 1, w,
                         [j \in 1..n |-> [i \in 1..w |-> [k \in 1..1 |-> 1]]],
                         [j \in 1..n |-> [i \in 1..w |-> [k \in 1..1 |-> 2]]],
                         [j \in 1..n |-> [i \in 1..w |-> [k \in 1..1 |-> GridShift(pm[j], i - 1)]]])

\* inputs a caller may pass that the helpers are not written for: a treatment
\* that is not binary, several treatment columns, arrays whose row count differs
\* from the number of observations
RowCounts(n) == {r \in {n - 1, n, n + 1} : r >= 1}

MTreatCell(j, i, k) ==
    LET p == IF (j + i) % 2 = 0 THEN 100 ELSE 900
    IN  IF k = 1 THEN p ELSE IF k = 2 THEN 1000 - p ELSE 500

Irregular(M) ==
    \E n \in 1..MaxObs, w \in 1..MaxRep, t \in TreatCounts :
        \E d \in [1..n -> DVals], r0 \in RowCounts(n), r1 \in RowCounts(n),
           rm \in RowCounts(n) :
            M = DmlModel([j \in 1..n |-> 1], d, t, w,
                         [j \in 1..r0 |-> [i \in 1..w |-> [k \in 1..t |-> 1 + (i - 1)]]],
                         [j \in 1..r1 |-> [i \in 1..w |-> [k \in 1..t |-> 2 + j + (i - 1)]]],
                         [j \in 1..rm |-> [i \in 1..w |-> [k \in 1..t |-> MTreatCell(j, i, k)]]])

\* the worked examples of the specification
ExampleRmse ==
    DmlModel(<<1, 2, 3, 4>>, <<0, 1, 0, 1>>, 1, 1,
             [j \in 1..4 |-> [i \in 1..1 |-> [k \in 1..1 |-> 1]]],
             [j \in 1..4 |-> [i \in 1..1 |-> [k \in 1..1 |-> 2]]],
             [j \in 1..4 |-> [i \in 1..1 |-> [k \in 1..1 |-> 500]]])

ExampleLogLoss ==
    DmlModel(<<1, 1>>, <<0, 1>>, 1, 1,
             [j \in 1..2 |-> [i \in 1..1 |-> [k \in 1..1 |-> 1]]],
             [j \in 1..2 |-> [i \in 1..1 |-> [k \in 1..1 |-> 2]]],
             [j \in 1..2 |-> [i \in 1..1 |-> [k \in 1..1 |-> IF j = 1 THEN 100 ELSE 900]]])

ExampleHist ==
    DmlModel(<<1, 1, 1>>, <<0, 1, 1>>, 1, 1,
             [j \in 1..3 |-> [i \in 1..1 |-> [k \in 1..1 |-> 1]]],
             [j \in 1..3 |-> [i \in 1..1 |-> [k \in 1..1 |-> 2]]],
             [j \in 1..3 |-> [i \in 1..1 |-> [k \in 1..1 |-> IF j = 1 THEN 20 ELSE IF j = 2 THEN 500 ELSE 980]]])

Examples == {ExampleRmse, ExampleLogLoss, ExampleHist}

(***************************************************************************)
(* Results of a call.                                                      *)
(***************************************************************************)
Returned(acc) == [status |-> "ok", err |-> "none", pred_acc |-> acc, plots |-> <<>>]

Raised(e) == [status |-> "error", err |-> e, pred_acc |-> <<>>, plots |-> <<>>]

Column(A, i) == [j \in 1..Len(A) |-> A[j][i]]

\* what a library function gives: a value, or the error it raises
Value(v) == [err |-> "none", v |-> v]

Error(e) == [err |-> e, v |-> 0]

(***************************************************************************)
(* Library functions the Python variant calls (scikit-learn, NumPy).       *)
(***************************************************************************)
np_isin_any(d) == \E j \in 1..Len(d) : d[j] \in {0, 1}

\* np.isin(d, [0,1]).all()
np_isin_all(d) == \A j \in 1..Len(d) : d[j] \in {0, 1}

\* sum of squared errors of two vectors of equal length
SquaredErrors(y_true, y_pred) ==
    SumSeq([j \in 1..Len(y_true) |-> (y_true[j] - y_pred[j]) * (y_true[j] - y_pred[j])])

\* sqrt(mean((y_true - y_pred)^2)), in 1/1000
RootMeanSquare(y_true, y_pred) ==
    ISqrt((SquaredErrors(y_true, y_pred) * 1000000) \div Len(y_true))

\* sklearn.metrics.mean_squared_error(y_true, y_pred, squared=False):
\* refuses vectors of different lengths
mean_squared_error(y_true, y_pred) ==
    IF Len(y_true) # Len(y_pred) THEN Error("ValueError")
    ELSE Value(RootMeanSquare(y_true, y_pred))

\* eps of the log_loss call
eps == 25

np_clip_none(p, e) == p

\* np.clip(p, eps, 1 - eps)
np_clip(p, e) == Max(e, Min(1000 - e, p))

\* sklearn.metrics.log_loss(y_true, y_pred, eps): y_pred holds one row per
\* observation, of one column (the probability of label 1) or one column per
\* label.  Refuses inputs of different lengths, a y_true with a single label and a
\* y_pred whose columns are not as many as the labels; clips, renormalises each
\* row, and averages -log of the probability of the observed label.
log_loss(y_true, y_pred, e) ==
    LET n == Len(y_true)
        classes == {y_true[j] : j \in 1..n}
        clipped == [j \in 1..Len(y_pred) |->
                       [k \in 1..Len(y_pred[j]) |-> np_clip(y_pred[j][k], e)]]
        probs == [j \in 1..Len(y_pred) |->
                     IF Len(clipped[j]) = 1
                     THEN <<1000 - clipped[j][1], clipped[j][1]>>
                     ELSE clipped[j]]
        normed == [j \in 1..Len(y_pred) |->
                      [k \in 1..Len(probs[j]) |->
                          (probs[j][k] * 1000) \div SumSeq(probs[j])]]
        \* position of label v among the sorted labels
        pos(v) == Cardinality({c \in classes : c <= v})
    IN  IF Len(y_pred) # n THEN Error("ValueError")
        ELSE IF Cardinality(classes) = 1 THEN Error("ValueError")
        ELSE IF \E j \in 1..n : Len(probs[j]) # Cardinality(classes)
        THEN Error("ValueError")
        ELSE Value(Mean([j \in 1..n |-> NegLog(normed[j][pos(y_true[j])])]))

(***************************************************************************)
(* pred_acc_irm, Python variant.                                           *)
(***************************************************************************)
\* what the assignment export_pred_array[j,i] = g0[j,i] / g1[j,i] raises, if
\* anything: d[j] or g1[j,i] may be out of range, and an element holding several
\* treatment columns does not fit a scalar cell
export_cell_error(M, j, i) ==
    IF j > Len(M.d) THEN "IndexError"
    ELSE LET src == IF M.d[j] = 0 THEN M.ml_g0 ELSE M.ml_g1
         IN  IF j > Len(src) THEN "IndexError"
             ELSE IF Len(src[j][i]) # 1 THEN "ValueError"
             ELSE "none"

\* the first cell, in the order of the loops (i outer, j inner), that raises
export_first_error(M) ==
    LET h == Len(M.ml_g0)
        w == M.n_rep
        bad == {c \in (1..w) \X (1..h) : export_cell_error(M, c[2], c[1]) # "none"}
        first == CHOOSE c \in bad : \A b \in bad :
                     c[1] < b[1] \/ (c[1] = b[1] /\ c[2] <= b[2])
    IN  IF bad = {} THEN "none" ELSE export_cell_error(M, first[2], first[1])

export_pred_array_swapped(M) ==
    [j \in 1..Len(M.ml_g0) |-> [i \in 1..M.n_rep |->
        IF M.d[j] = 0 THEN M.ml_g1[j][i][1] ELSE M.ml_g0[j][i][1]]]

\* the array of picked predictions, h rows by w columns
export_pred_array(M) ==
    [j \in 1..Len(M.ml_g0) |-> [i \in 1..M.n_rep |->
        IF M.d[j] = 0 THEN M.ml_g0[j][i][1] ELSE M.ml_g1[j][i][1]]]

pred_acc_array_reversed(metrics) ==
    LET bad == {i \in 1..Len(metrics) : metrics[i].err # "none"}
    IN  IF bad # {} THEN Raised(metrics[CHOOSE i \in bad : \A b \in bad : i <= b].err)
        ELSE Returned([i \in 1..Len(metrics) |-> metrics[Len(metrics) + 1 - i].v])

\* pred_acc_array after the loop over the repetitions, metrics[i] being what the
\* metric call of repetition i gives: the loop stops at the first error
pred_acc_array(metrics) ==
    LET bad == {i \in 1..Len(metrics) : metrics[i].err # "none"}
    IN  IF bad # {} THEN Raised(metrics[CHOOSE i \in bad : \A b \in bad : i <= b].err)
        ELSE Returned([i \in 1..Len(metrics) |-> metrics[i].v])

pred_acc_irm_py(M, prop) ==
    LET w == M.n_rep
        failed == export_first_error(M)
        export == export_pred_array(M)
    IN  IF ~ np_isin_all(M.d) THEN Raised("ValueError")
        ELSE IF ~ prop
        THEN IF failed # "none" THEN Raised(failed)
             ELSE pred_acc_array([i \in 1..w |->
                      mean_squared_error(M.y, Column(export, i))])
        ELSE pred_acc_array([i \in 1..w |-> log_loss(M.d, Column(M.ml_m, i), eps)])

(***************************************************************************)
(* Library functions the R variant calls (base R, mlr3measures).           *)
(***************************************************************************)
\* matrix(arr[,,1], ncol = w): the slice of the first treatment
first_slice(A, w) == [j \in 1..Len(A) |-> [i \in 1..w |-> A[j][i][1]]]

vec_times_matrix_by_row(v, A, w) ==
    LET rows == Len(A)
    IN  IF Len(v) > rows * w THEN Error("RError")
        ELSE Value([j \in 1..rows |-> [i \in 1..w |->
                 v[(((j - 1) * w + (i - 1)) % Len(v)) + 1] * A[j][i]]])

\* v * A for a vector v and a matrix A: v is recycled down the columns of A
\* (column-major order); a vector longer than the matrix is an error
vec_times_matrix(v, A, w) ==
    LET rows == Len(A)
    IN  IF Len(v) > rows * w THEN Error("RError")
        ELSE Value([j \in 1..rows |-> [i \in 1..w |->
                 v[(((i - 1) * rows + (j - 1)) % Len(v)) + 1] * A[j][i]]])

\* A + B for two matrices: their dimensions must agree
matrix_plus(A, B, w) ==
    IF Len(A) # Len(B) THEN Error("RError")
    ELSE Value([j \in 1..Len(A) |-> [i \in 1..w |-> A[j][i] + B[j][i]]])

\* mlr3measures::rmse(truth, response): asserts equal lengths
rmse(truth, response) ==
    IF Len(response) # Len(truth) THEN Error("RError")
    ELSE Value(RootMeanSquare(truth, response))

\* -1000 * ln(1e-15 / 1), rounded: the default eps of mlr3measures::logloss
NegLogMlrEps == 34539

neg_log_unclamped(p) == NegLog(p)

\* -log(pmax(eps, pmin(1 - eps, p))) for eps = 1e-15, which lies below the
\* resolution of the probabilities: values in (0, 1) are left as they are
neg_log_clamped(p) ==
    IF p <= 0 THEN NegLogMlrEps
    ELSE IF p >= 1000 THEN 0
    ELSE NegLog(p)

\* mlr3measures::logloss(as.factor(truth), prob) with prob's columns named "0"
\* and "1": asserts one row of prob per element of truth and the levels of truth
\* to be the column names; averages -log of the clamped probability of the
\* observed level
logloss(truth, prob) ==
    LET n == Len(truth)
        levels == {truth[j] : j \in 1..n}
    IN  IF Len(prob) # n THEN Error("RError")
        ELSE IF levels # {0, 1} THEN Error("RError")
        ELSE Value(Mean([j \in 1..n |-> neg_log_clamped(prob[j][truth[j] + 1])]))

(***************************************************************************)
(* pred_acc_irm, R variant.                                                *)
(***************************************************************************)
export_pred_swapped(M) ==
    LET w == M.n_rep
        d == M.d
        g0 == first_slice(M.ml_g0, w)
        g1 == first_slice(M.ml_g1, w)
        treated == vec_times_matrix(d, g0, w)
        control == vec_times_matrix([j \in 1..Len(d) |-> 1 - d[j]], g1, w)
    IN  IF treated.err # "none" THEN treated
        ELSE IF control.err # "none" THEN control
        ELSE matrix_plus(treated.v, control.v, w)

\* export_pred = d*g1 + (1-d) * g0
export_pred(M) ==
    LET w == M.n_rep
        d == M.d
        g0 == first_slice(M.ml_g0, w)
        g1 == first_slice(M.ml_g1, w)
        treated == vec_times_matrix(d, g1, w)
        control == vec_times_matrix([j \in 1..Len(d) |-> 1 - d[j]], g0, w)
    IN  IF treated.err # "none" THEN treated
        ELSE IF control.err # "none" THEN control
        ELSE matrix_plus(treated.v, control.v, w)

pred_acc_irm_R_flipped(M, prop) ==
    LET w == M.n_rep
        m == first_slice(M.ml_m, w)
        export == export_pred(M)
    IN  IF M.n_treat > 1 THEN Raised("stop")
        ELSE IF ~ (\A j \in 1..Len(M.d) : M.d[j] \in {0, 1}) THEN Raised("stop")
        ELSE IF prop
        THEN IF export.err # "none" THEN Raised(export.err)
             ELSE pred_acc_array([i \in 1..w |-> rmse(M.y, Column(export.v, i))])
        ELSE pred_acc_array([i \in 1..w |->
                 logloss(M.d, [j \in 1..Len(m) |-> <<1000 - m[j][i], m[j][i]>>])])

pred_acc_irm_R(M, prop) ==
    LET w == M.n_rep
        m == first_slice(M.ml_m, w)
        export == export_pred(M)
    IN  IF M.n_treat > 1 THEN Raised("stop")
        ELSE IF ~ (\A j \in 1..Len(M.d) : M.d[j] \in {0, 1}) THEN Raised("stop")
        ELSE IF ~ prop
        THEN IF export.err # "none" THEN Raised(export.err)
             ELSE pred_acc_array([i \in 1..w |-> rmse(M.y, Column(export.v, i))])
        ELSE pred_acc_array([i \in 1..w |->
                 logloss(M.d, [j \in 1..Len(m) |-> <<1000 - m[j][i], m[j][i]>>])])

(***************************************************************************)
(* rep_propscore_plot.  A histogram is its 26 bin edges (in 1/48000), its  *)
(* 25 counts and the set of bins whose bar is drawn; a plot is a sequence  *)
(* of axes (Python) or facets (R), each with a title and the histograms    *)
(* drawn on it.                                                            *)
(***************************************************************************)
\* bins of both hist calls
bins == 25

\* probabilities are in 1/1000, edges in 1/48000
EdgeUnits(p) == 48 * p

Plotted(axes) == [status |-> "ok", err |-> "none", pred_acc |-> <<>>, plots |-> axes]

Failed(e, axes) == [status |-> "error", err |-> e, pred_acc |-> <<>>, plots |-> axes]

EmptyAxes(n) == [i \in 1..n |-> [title |-> 0, hists |-> <<>>]]

np_reshape_first(a, h) == Value([j \in 1..h |-> a[j][1]])

\* np.reshape(a, h) of a[:,i], an array of h rows: possible only when the rows
\* hold h elements in all
np_reshape(a, h) ==
    IF SumSeq([j \in 1..Len(a) |-> Len(a[j])]) # h THEN Error("ValueError")
    ELSE Value([j \in 1..h |-> a[j][1]])

np_bin_index_closed_right(p) == IF p = 0 THEN 1 ELSE (p * bins + 999) \div 1000

np_bin_index_unfixed(p) == (p * bins) \div 1000 + 1

\* the bin of a value in [0, 1]: bins are closed on the left, the last one
\* on both sides
np_bin_index(p) ==
    LET f == (p * bins) \div 1000
    IN  IF f = bins THEN bins ELSE f + 1

ax_hist_all(x) ==
    [edges |-> [k \in 1..(bins + 1) |-> ((k - 1) * EdgeUnits(1000)) \div bins],
     counts |-> [b \in 1..bins |-> Cardinality({j \in 1..Len(x) : np_bin_index(x[j]) = b})],
     drawn |-> 1..bins]

\* matplotlib's ax.hist(x, range=[0,1], bins=25, density=False), which is
\* np.histogram(x, bins=25, range=(0, 1)): 25 equal bins over [0, 1]; values
\* outside the range are left out
ax_hist(x) ==
    LET keep == {j \in 1..Len(x) : x[j] >= 0 /\ x[j] <= 1000}
    IN  [edges |-> [k \in 1..(bins + 1) |-> ((k - 1) * EdgeUnits(1000)) \div bins],
         counts |-> [b \in 1..bins |-> Cardinality({j \in keep : np_bin_index(x[j]) = b})],
         drawn |-> 1..bins]

\* Python variant: one axis per repetition when rep > 1, else a single axis on
\* which the histogram is drawn by two successive ax.hist calls
rep_propscore_plot_py(M) ==
    LET m == M.ml_m
        h == Len(m)
        rep == M.n_rep
        x(i) == np_reshape(Column(m, i), h)
    IN  IF rep > 1
        THEN IF \E i \in 1..rep : x(i).err # "none"
             THEN Failed("ValueError",
                         [i \in 1..rep |->
                             IF \A c \in 1..i : x(c).err = "none"
                             THEN [title |-> i, hists |-> <<ax_hist(x(i).v)>>]
                             ELSE [title |-> 0, hists |-> <<>>]])
             ELSE Plotted([i \in 1..rep |-> [title |-> i, hists |-> <<ax_hist(x(i).v)>>]])
        ELSE IF x(1).err # "none" THEN Failed("ValueError", EmptyAxes(1))
             ELSE Plotted(<<[title |-> 1, hists |-> <<ax_hist(x(1).v), ax_hist(x(1).v)>>]>>)

\* ggplot2's geom_histogram(bins = 25) under xlim(c(0,1)): values outside the
\* limits are removed; the 25 bins have width 1/24 and are centred on 0, 1/24,
\* ..., 1 (edges at (2k-1)/48), closed on the right; a bar reaching beyond the
\* limits is not drawn
geom_histogram(x) ==
    LET keep == {j \in 1..Len(x) : x[j] >= 0 /\ x[j] <= 1000}
        edges == [k \in 1..(bins + 1) |-> (2 * k - 3) * 1000]
    IN  [edges |-> edges,
         counts |-> [b \in 1..bins |-> Cardinality({j \in keep :
                        edges[b] < EdgeUnits(x[j]) /\ EdgeUnits(x[j]) <= edges[b + 1]})],
         drawn |-> {b \in 1..bins : edges[b] >= 0 /\ edges[b + 1] <= EdgeUnits(1000)}]

\* R variant: data.table(arr[,,1]) drops the axes of extent 1, so a single
\* observation with several repetitions arrives as one column, which cannot take
\* n_rep column names
rep_propscore_plot_R(M) ==
    LET w == M.n_rep
        m == first_slice(M.ml_m, w)
    IN  IF M.n_treat > 1 THEN Failed("stop", <<>>)
        ELSE IF Len(m) = 1 /\ w > 1 THEN Failed("RError", <<>>)
        ELSE Plotted([i \in 1..w |->
                 [title |-> i, hists |-> <<geom_histogram(Column(m, i))>>]])

NoCall == [fn |-> "none", lang |-> "none", prop |-> FALSE]

NoOut == [status |-> "none", err |-> "none", pred_acc |-> <<>>, plots |-> <<>>]

\* the global environment of the notebook session, a record of the variables
\* assigned so far; the helpers read and assign none of them
NoEnv == [session |-> "helpers"]

Init ==
    /\ \/ GVaried(model)
       \/ MVaried(model)
       \/ Irregular(model)
       \/ model \in Examples
    /\ call = NoCall
    /\ out = NoOut
    /\ env = NoEnv

\* what the session has kept of the helper calls evaluated so far
Kept(e) == IF "kept" \in DOMAIN e THEN e.kept ELSE <<>>

PyPredAccIrm_cached(prop) ==
    /\ call = NoCall
    /\ call' = [fn |-> "pred_acc_irm", lang |-> "py", prop |-> prop]
    /\ out' = IF Kept(env) # <<>> /\ Kept(env)[1].call.prop = prop
               THEN Kept(env)[1].out
               ELSE pred_acc_irm_py(model, prop)
    /\ UNCHANGED <<model, env>>

PyPredAccIrm_inplace(prop) ==
    /\ call = NoCall
    /\ call' = [fn |-> "pred_acc_irm", lang |-> "py", prop |-> prop]
    /\ out' = pred_acc_irm_py(model, prop)
    /\ model' = IF out'.status = "ok" /\ ~ prop
                 THEN [model EXCEPT !.ml_g0 =
                          [j \in 1..Len(model.ml_g0) |-> [i \in 1..model.n_rep |->
                              <<export_pred_array(model)[j][i]>>]]]
                 ELSE model
    /\ UNCHANGED env

PyPredAccIrm(prop) ==
    /\ call = NoCall
    /\ call' = [fn |-> "pred_acc_irm", lang |-> "py", prop |-> prop]
    /\ out' = pred_acc_irm_py(model, prop)
    /\ UNCHANGED <<model, env>>

RPredAccIrm(prop) ==
    /\ call = NoCall
    /\ call' = [fn |-> "pred_acc_irm", lang |-> "R", prop |-> prop]
    /\ out' = pred_acc_irm_R(model, prop)
    /\ UNCHANGED <<model, env>>

PyRepPropscorePlot ==
    /\ call = NoCall
    /\ call' = [fn |-> "rep_propscore_plot", lang |-> "py", prop |-> FALSE]
    /\ out' = rep_propscore_plot_py(model)
    /\ UNCHANGED <<model, env>>

RRepPropscorePlot ==
    /\ call = NoCall
    /\ call' = [fn |-> "rep_propscore_plot", lang |-> "R", prop |-> FALSE]
    /\ out' = rep_propscore_plot_R(model)
    /\ UNCHANGED <<model, env>>

\* the result has been displayed; nothing of it is kept
Discard ==
    /\ call # NoCall
    /\ call' = NoCall
    /\ out' = NoOut
    /\ UNCHANGED <<model, env>>

Next ==
    \/ \E prop \in BOOLEAN : PyPredAccIrm(prop)
    \/ \E prop \in BOOLEAN : RPredAccIrm(prop)
    \/ PyRepPropscorePlot
    \/ RRepPropscorePlot
    \/ Discard

Spec == Init /\ [][Next]_vars

(***************************************************************************)
(* Repeated evaluation.  The notebooks fit a benchmark model and a         *)
(* machine-learning model on the same data and evaluate each with          *)
(* pred_acc_irm, keeping the result in a variable of the session.          *)
(***************************************************************************)
\* another fit on the same data: other nuisance predictions
OtherFit(M) ==
    [M EXCEPT !.ml_g0 = [j \in 1..Len(M.ml_g0) |-> [i \in 1..M.n_rep |->
                            <<M.ml_g0[j][i][1] + 1>>]],
              !.ml_m = [j \in 1..Len(M.ml_m) |-> [i \in 1..M.n_rep |->
                            <<1000 - M.ml_m[j][i][1]>>]]]

Fits == Examples \cup {OtherFit(M) : M \in Examples}

InitRepeat ==
    /\ model \in Fits
    /\ call = NoCall
    /\ out = NoOut
    /\ env = [session |-> "evaluation", kept |-> <<>>]

\* the result of the call is assigned to a variable of the session
KeepResult ==
    /\ call.fn = "pred_acc_irm"
    /\ env' = [env EXCEPT !.kept = <<[model |-> model, call |-> call, out |-> out]>>]
    /\ call' = NoCall
    /\ out' = NoOut
    /\ UNCHANGED model

\* the next model is fitted
Refit ==
    /\ call = NoCall
    /\ \E M \in Fits : M # model /\ model' = M
    /\ UNCHANGED <<call, out, env>>

NextRepeat ==
    \/ \E prop \in BOOLEAN : PyPredAccIrm(prop)
    \/ KeepResult
    \/ Refit

SpecRepeat == InitRepeat /\ [][NextRepeat]_vars

(***************************************************************************)
(* Vocabulary of the properties.                                           *)
(***************************************************************************)
Binary(d) == \A j \in 1..Len(d) : d[j] \in {0, 1}

BothLabels(d) == {d[j] : j \in 1..Len(d)} = {0, 1}

\* the input the helpers are written for: one binary treatment and arrays with
\* one row per observation
Regular(M) ==
    /\ M.n_treat = 1
    /\ Binary(M.d)
    /\ Len(M.d) = Len(M.y)
    /\ Len(M.ml_g0) = Len(M.y)
    /\ Len(M.ml_g1) = Len(M.y)
    /\ Len(M.ml_m) = Len(M.y)

CalledAcc == call.fn = "pred_acc_irm"

CalledPlot == call.fn = "rep_propscore_plot"

\* the prediction of the arm observation j was in, repetition i
Blended(M, j, i) == IF M.d[j] = 1 THEN M.ml_g1[j][i][1] ELSE M.ml_g0[j][i][1]

BlendedSquares(M, i) ==
    SumSeq([j \in 1..Len(M.y) |->
        (M.y[j] - Blended(M, j, i)) * (M.y[j] - Blended(M, j, i))])

\* the model holding repetition i alone
OnlyRepetition(M, i) ==
    LET pick(A) == [j \in 1..Len(A) |-> <<A[j][i]>>]
    IN  [M EXCEPT !.n_rep = 1, !.ml_g0 = pick(M.ml_g0), !.ml_g1 = pick(M.ml_g1),
                  !.ml_m = pick(M.ml_m)]

HelperOut(M, c) ==
    IF c.lang = "py" THEN pred_acc_irm_py(M, c.prop) ELSE pred_acc_irm_R(M, c.prop)

C2_NonBinaryRejected ==
    (CalledAcc /\ ~ Binary(model.d)) =>
        (out.status = "error" /\ out.pred_acc = <<>>)

C2_Witness ==
    /\ CalledAcc /\ call.lang = "py" /\ ~ call.prop
    /\ model.n_treat = 1 /\ Len(model.ml_g0) = Len(model.y)
    /\ Len(model.ml_g1) = Len(model.y)
    /\ \E j, l \in 1..Len(model.d) : model.d[j] = 2 /\ model.d[l] = 0
    /\ out.status = "error"

(***************************************************************************)
(* C3.  The result has one element per repetition, and its i-th element is *)
(* what the helper returns for the model holding repetition i alone.       *)
(***************************************************************************)
C3_OnePerRepetitionInOrder ==
    (CalledAcc /\ out.status = "ok") =>
        /\ Len(out.pred_acc) = model.n_rep
        /\ \A i \in 1..model.n_rep :
               LET alone == HelperOut(OnlyRepetition(model, i), call)
               IN  alone.status = "ok" /\ out.pred_acc[i] = alone.pred_acc[1]

C3_Witness ==
    /\ CalledAcc /\ out.status = "ok" /\ model.n_rep = 2
    /\ out.pred_acc[1] # out.pred_acc[2]
    /\ call.lang = "R" /\ call.prop

(***************************************************************************)
(* C4.  Propensity mode.  As claimed for every variant: each prediction is *)
(* clamped into [0.025, 0.975] and the value returned for repetition i is  *)
(* -mean(d*log(p) + (1-d)*log(1-p)).                                       *)
(***************************************************************************)
\* the probability the prediction p gives to the observed treatment t
Observed(t, p) == IF t = 1 THEN p ELSE 1000 - p

Clamp025(p) == IF p < 25 THEN 25 ELSE IF p > 975 THEN 975 ELSE p

LogLoss025(M, i) ==
    Mean([j \in 1..Len(M.d) |-> NegLog(Observed(M.d[j], Clamp025(M.ml_m[j][i][1])))])

\* -log of a probability clamped into [1e-15, 1 - 1e-15]
NegLogTiny(q) == IF q <= 0 THEN 34539 ELSE IF q >= 1000 THEN 0 ELSE NegLog(q)

LogLossTiny(M, i) ==
    Mean([j \in 1..Len(M.d) |-> NegLogTiny(Observed(M.d[j], M.ml_m[j][i][1]))])

C4_ClampedLogLossEveryVariant ==
    (CalledAcc /\ call.prop /\ out.status = "ok") =>
        \A i \in 1..model.n_rep : out.pred_acc[i] = LogLoss025(model, i)

(***************************************************************************)
(* C4, amended.  For a model with one treatment column the Python variant  *)
(* clamps into [0.025, 0.975] and returns the log-loss of the clamped      *)
(* predictions; the R variant clamps into [1e-15, 1 - 1e-15] only.  Both   *)
(* answer every regular input whose treatment holds both values; the       *)
(* worked example gives 0.105.                                             *)
(***************************************************************************)
C4_ClampedLogLoss ==
    (CalledAcc /\ call.prop) =>
        /\ (Regular(model) /\ BothLabels(model.d)) => out.status = "ok"
        /\ (out.status = "ok" /\ call.lang = "py" /\ model.n_treat = 1) =>
               \A i \in 1..model.n_rep : out.pred_acc[i] = LogLoss025(model, i)
        /\ (out.status = "ok" /\ call.lang = "R") =>
               \A i \in 1..model.n_rep : out.pred_acc[i] = LogLossTiny(model, i)
        /\ (model = ExampleLogLoss /\ call.lang = "py") => out.pred_acc = <<105>>

C4_Witness ==
    /\ CalledAcc /\ call.prop /\ call.lang = "py" /\ out.status = "ok"
    /\ \E j, l \in 1..Len(model.d) :
           /\ model.ml_m[j][1][1] = 0
           /\ model.ml_m[l][1][1] = 1000
    /\ out.pred_acc[1] > 0

(***************************************************************************)
(* C5.  Every log-loss returned in propensity mode is finite and not       *)
(* negative, also when a prediction is exactly 0 or exactly 1.             *)
(***************************************************************************)
C5_LogLossFiniteNonNegative ==
    (CalledAcc /\ call.prop /\ out.status = "ok") =>
        \A i \in 1..Len(out.pred_acc) :
            out.pred_acc[i] >= 0 /\ IsFinite(out.pred_acc[i])

\* a prediction of exactly 0 for a treated observation: unclamped, log(0)
C5_Witness ==
    /\ CalledAcc /\ call.prop /\ out.status = "ok"
    /\ \E j \in 1..Len(model.d), i \in 1..model.n_rep :
           model.d[j] = 1 /\ model.ml_m[j][i][1] = 0

(***************************************************************************)
(* C6.  pred_acc_irm fails when a prediction array it reads (g0 and g1 in  *)
(* regression mode, m in propensity mode) has a number of rows other than  *)
(* the number of observations.                                             *)
(***************************************************************************)
C6_RowMismatchRejected ==
    (/\ CalledAcc
     /\ IF call.prop THEN Len(model.ml_m) # Len(model.y)
        ELSE Len(model.ml_g0) # Len(model.y) \/ Len(model.ml_g1) # Len(model.y))
    => out.status = "error"

(***************************************************************************)
(* C7.  pred_acc_irm fails, in both variants and both modes, when the      *)
(* model has more than one treatment column, and computes no metric.       *)
(***************************************************************************)
C7_MultiTreatmentRejected ==
    (CalledAcc /\ model.n_treat > 1) =>
        (out.status = "error" /\ out.pred_acc = <<>>)

(***************************************************************************)
(* C8.  rep_propscore_plot fails, in both variants, when the model has     *)
(* more than one treatment column, and no histogram is drawn.              *)
(***************************************************************************)
C8_PlotMultiTreatmentRejected ==
    (CalledPlot /\ model.n_treat > 1) =>
        /\ out.status = "error"
        /\ \A a \in 1..Len(out.plots) : out.plots[a].hists = <<>>

C8_Witness ==
    /\ CalledPlot /\ call.lang = "py" /\ model.n_treat = 2 /\ model.n_rep = 2
    /\ out.status = "error"
    /\ Len(out.plots) = 2

(***************************************************************************)
(* C9.  For every repetition the histogram has exactly 25 buckets of width *)
(* 0.04 that partition [0,1], every bucket is drawn, and its count is the  *)
(* number of predictions of that repetition in the bucket; predictions     *)
(* 0.02, 0.5, 0.98 give count 1 in the buckets 0-0.04, 0.48-0.52 and       *)
(* 0.96-1 and 0 elsewhere.                                                 *)
(***************************************************************************)
\* bucket b of 25 equal buckets over [0, 1]: closed below, the last one also above
InBucket(p, b) ==
    /\ 40 * (b - 1) <= p
    /\ p < 40 * b \/ (b = 25 /\ p = 1000)

EqualBuckets(h, M, i) ==
    /\ Len(h.counts) = 25
    /\ h.edges = [k \in 1..26 |-> EdgeUnits(40 * (k - 1))]
    /\ h.drawn = 1..25
    /\ \A b \in 1..25 :
           h.counts[b] = Cardinality({j \in 1..Len(M.ml_m) : InBucket(M.ml_m[j][i][1], b)})

C9_TwentyFiveEqualBuckets ==
    (CalledPlot /\ out.status = "ok") =>
        /\ Len(out.plots) = model.n_rep
        /\ \A a \in 1..Len(out.plots) :
               /\ out.plots[a].hists # <<>>
               /\ \A x \in 1..Len(out.plots[a].hists) :
                      EqualBuckets(out.plots[a].hists[x], model, a)
        /\ model = ExampleHist =>
               \A b \in 1..25 :
                   out.plots[1].hists[1].counts[b] = IF b \in {1, 13, 25} THEN 1 ELSE 0

\* C9 for the Python variant alone
C9_PythonBuckets == call.lang = "py" => C9_TwentyFiveEqualBuckets

(***************************************************************************)
(* C10.  In every histogram the Python variant draws, the 25 counts sum to *)
(* the number of predictions of that repetition lying in [0,1].            *)
(***************************************************************************)
InRange(M, i) == {j \in 1..Len(M.ml_m) : M.ml_m[j][i][1] >= 0 /\ M.ml_m[j][i][1] <= 1000}

C10_CountsSumToInRange ==
    (CalledPlot /\ call.lang = "py" /\ out.status = "ok") =>
        \A a \in 1..Len(out.plots) :
            \A x \in 1..Len(out.plots[a].hists) :
                /\ Len(out.plots[a].hists[x].counts) = 25
                /\ SumSeq(out.plots[a].hists[x].counts) = Cardinality(InRange(model, a))

\* a repetition holding a prediction of exactly 1 and one outside [0,1]
C10_Witness ==
    /\ CalledPlot /\ call.lang = "py" /\ out.status = "ok"
    /\ \E a \in 1..Len(out.plots) :
           /\ \E j \in 1..Len(model.ml_m) : model.ml_m[j][a][1] = 1000
           /\ \E j \in 1..Len(model.ml_m) : model.ml_m[j][a][1] > 1000
           /\ SumSeq(out.plots[a].hists[1].counts) = 1

(***************************************************************************)
(* C11.  rep_propscore_plot draws, for every repetition i = 1..n_rep, one  *)
(* axis titled i holding exactly one histogram, built from column i of the *)
(* propensity predictions only; so also when n_rep = 1.                    *)
(***************************************************************************)
\* the histogram the variant of call c builds from the values x
HistOf(c, x) == IF c.lang = "py" THEN ax_hist(x) ELSE geom_histogram(x)

PropColumn(M, i) == [j \in 1..Len(M.ml_m) |-> M.ml_m[j][i][1]]

C11_OneHistogramPerRepetition ==
    (CalledPlot /\ out.status = "ok") =>
        /\ Len(out.plots) = model.n_rep
        /\ \A i \in 1..Len(out.plots) :
               /\ out.plots[i].title = i
               /\ out.plots[i].hists = <<HistOf(call, PropColumn(model, i))>>

\* C11 for more than one repetition, and for the R variant
C11_SeveralRepetitions ==
    (model.n_rep > 1 \/ call.lang = "R") => C11_OneHistogramPerRepetition

(***************************************************************************)
(* C12.  A propensity prediction outside [0,1] does not make               *)
(* rep_propscore_plot fail: the call succeeds or fails as it does with     *)
(* that prediction in range; it is counted in no bucket, and the           *)
(* histogram of its repetition is the one of the in-range predictions of   *)
(* that repetition.                                                        *)
(***************************************************************************)
InUnit(p) == p >= 0 /\ p <= 1000

\* the model with every out-of-range propensity prediction moved to 0.5
MovedInRange(M) ==
    [M EXCEPT !.ml_m = [j \in 1..Len(M.ml_m) |-> [i \in 1..Len(M.ml_m[j]) |->
        [k \in 1..Len(M.ml_m[j][i]) |->
            IF InUnit(M.ml_m[j][i][k]) THEN M.ml_m[j][i][k] ELSE 500]]]]

PlotOut(M, c) ==
    IF c.lang = "py" THEN rep_propscore_plot_py(M) ELSE rep_propscore_plot_R(M)

C12_OutOfRangeExcluded ==
    CalledPlot =>
        /\ out.status = PlotOut(MovedInRange(model), call).status
        /\ out.status = "ok" =>
               \A i \in 1..Len(out.plots) : \A x \in 1..Len(out.plots[i].hists) :
                   /\ out.plots[i].hists[x] =
                          HistOf(call, SelectSeq(PropColumn(model, i), InUnit))
                   /\ SumSeq(out.plots[i].hists[x].counts) = Cardinality(InRange(model, i))

\* a repetition with a prediction above 1, one below 0 and one in range
C12_Witness ==
    /\ CalledPlot /\ out.status = "ok"
    /\ \E i \in 1..Len(out.plots) :
           /\ \E j \in 1..Len(model.ml_m) : model.ml_m[j][i][1] > 1000
           /\ \E j \in 1..Len(model.ml_m) : InUnit(model.ml_m[j][i][1])
           /\ SumSeq(out.plots[i].hists[1].counts) = Cardinality(InRange(model, i))
           /\ Cardinality(InRange(model, i)) < Len(model.ml_m)

(***************************************************************************)
(* C13.  Validation in pred_acc_irm is eager: on every invalid input (a    *)
(* treatment that is not binary, more than one treatment column, a         *)
(* prediction array read by the mode whose row count is not the number of  *)
(* observations) the call fails, and the caller receives no result array.  *)
(***************************************************************************)
Invalid(M, prop) ==
    \/ ~ Binary(M.d)
    \/ M.n_treat > 1
    \/ IF prop THEN Len(M.ml_m) # Len(M.y)
       ELSE Len(M.ml_g0) # Len(M.y) \/ Len(M.ml_g1) # Len(M.y)

C13_EagerValidation ==
    (CalledAcc /\ Invalid(model, call.prop)) =>
        (out.status = "error" /\ out.pred_acc = <<>>)

\* what does hold: a failing call hands no result array over, and it fails no
\* later than in the first repetition, before any metric has been stored
C13_NoPartialResult ==
    (CalledAcc /\ out.status = "error") =>
        /\ out.pred_acc = <<>>
        /\ HelperOut(OnlyRepetition(model, 1), call).status = "error"

(***************************************************************************)
(* C14.  Regression mode, binary treatment: when the blended prediction of *)
(* repetition i (g1 where d = 1, g0 where d = 0) equals y at every         *)
(* observation, the RMSE returned for repetition i is 0, whatever the      *)
(* predictions of the arm not selected are; a regular input is answered.   *)
(***************************************************************************)
BlendedIsOutcome(M, i) == \A j \in 1..Len(M.y) : Blended(M, j, i) = M.y[j]

\* the prediction of the arm observation j was not in, repetition i
Unselected(M, j, i) == IF M.d[j] = 1 THEN M.ml_g0[j][i][1] ELSE M.ml_g1[j][i][1]

C14_ExactBlendGivesZero ==
    (CalledAcc /\ ~ call.prop /\ Binary(model.d)) =>
        /\ Regular(model) => out.status = "ok"
        /\ out.status = "ok" =>
               \A i \in 1..model.n_rep :
                   BlendedIsOutcome(model, i) => out.pred_acc[i] = 0

\* the blend of repetition 2 is exact although the other arm is off at every
\* observation, treated and untreated
C14_Witness ==
    /\ CalledAcc /\ ~ call.prop /\ call.lang = "R" /\ out.status = "ok"
    /\ Regular(model) /\ BothLabels(model.d) /\ model.n_rep = 2
    /\ BlendedIsOutcome(model, 2)
    /\ \A j \in 1..Len(model.y) : Unselected(model, j, 2) # model.y[j]
    /\ out.pred_acc[2] = 0
    /\ out.pred_acc[1] > 0

(***************************************************************************)
(* C15.  A call of pred_acc_irm or rep_propscore_plot, successful or       *)
(* failing, leaves the fitted model as it was: y, d, ml_g0, ml_g1, ml_m    *)
(* and n_rep hold the same values after the call as before it.             *)
(***************************************************************************)
HelperCalled == call.fn = "none" /\ call'.fn \in {"pred_acc_irm", "rep_propscore_plot"}

C15_ModelUnchanged ==
    [][HelperCalled =>
          /\ model'.y = model.y
          /\ model'.d = model.d
          /\ model'.ml_g0 = model.ml_g0
          /\ model'.ml_g1 = model.ml_g1
          /\ model'.ml_m = model.ml_m
          /\ model'.n_rep = model.n_rep]_vars

\* a regression-mode call has returned for a model in which the blend differs
\* from ml_g0: writing the blend into ml_g0 would show
C15_Witness ==
    /\ CalledAcc /\ call.lang = "py" /\ ~ call.prop /\ out.status = "ok"
    /\ \E j \in 1..Len(model.ml_g0), i \in 1..model.n_rep :
           Blended(model, j, i) # model.ml_g0[j][i][1]

NoModel == DmlModel(<<>>, <<>>, 0, 0, <<>>, <<>>, <<>>)

\* c("Quantity", "revenue", "UnitPrice", "dLnP", "dLnQ")
not_features == <<"Quantity", "revenue", "UnitPrice", "dLnP", "dLnQ">>

\* a != b for two character vectors: element by element, the shorter one recycled
r_not_equal(a, b) ==
    [k \in 1..Max(Len(a), Len(b)) |->
        a[((k - 1) % Len(a)) + 1] # b[((k - 1) % Len(b)) + 1]]

\* x[keep] for a logical vector keep: the elements at the TRUE positions, NA for a
\* TRUE position beyond the end of x
RECURSIVE r_logical_index(_, _, _)
r_logical_index(x, keep, k) ==
    IF k > Len(keep) THEN <<>>
    ELSE (IF keep[k] THEN <<IF k <= Len(x) THEN x[k] ELSE "NA">> ELSE <<>>)
         \o r_logical_index(x, keep, k + 1)

\* names(demand_data)[names(demand_data) != c(...)]
feature_names_R(names) == r_logical_index(names, r_not_equal(names, not_features), 1)

IsLabel(labels, c) == \E l \in 1..Len(labels) : labels[l] = c

\* the sequence x without the elements found in labels, order kept
RECURSIVE Without(_, _)
Without(x, labels) ==
    IF x = <<>> THEN <<>>
    ELSE (IF IsLabel(labels, Head(x)) THEN <<>> ELSE <<Head(x)>>) \o Without(Tail(x), labels)

\* pandas Index.drop(labels): a label that is not in the index is a KeyError
index_drop(columns, labels) ==
    IF \E l \in 1..Len(labels) : ~ IsLabel(columns, labels[l])
    THEN [err |-> "KeyError", v |-> <<>>]
    ELSE [err |-> "none", v |-> Without(columns, labels)]

\* demand_data.columns.drop(['Quantity', 'revenue', 'UnitPrice', 'dLnQ', 'dLnP']).to_list()
feature_names_py(columns) ==
    index_drop(columns, <<"Quantity", "revenue", "UnitPrice", "dLnQ", "dLnP">>)

InitFeatures ==
    /\ model = NoModel
    /\ call = NoCall
    /\ out = NoOut
    /\ \E n \in 1..MaxCols : \E names \in [1..n -> ColumnNames] :
           /\ \A a, b \in 1..n : a # b => names[a] # names[b]
           /\ env = [session |-> "elasticity", demand_data |-> names,
                     assigned |-> "none", feature_names |-> <<>>]

RFeatureNames ==
    /\ env.session = "elasticity" /\ env.assigned = "none"
    /\ env' = [env EXCEPT !.assigned = "R",
                          !.feature_names = feature_names_R(env.demand_data)]
    /\ UNCHANGED <<model, call, out>>

PyFeatureNames ==
    /\ env.session = "elasticity" /\ env.assigned = "none"
    /\ LET dropped == feature_names_py(env.demand_data)
       IN  env' = [env EXCEPT !.assigned = IF dropped.err = "none" THEN "py" ELSE dropped.err,
                              !.feature_names = dropped.v]
    /\ UNCHANGED <<model, call, out>>

NextFeatures == RFeatureNames \/ PyFeatureNames

SpecFeatures == InitFeatures /\ [][NextFeatures]_vars

(***************************************************************************)
(* C17.  feature_names holds exactly the columns of demand_data other than *)
(* Quantity, revenue, UnitPrice, dLnP and dLnQ, in their order, for every  *)
(* number and order of columns; dLnQ and dLnP are never among them; the R  *)
(* selection is the Python selection.                                      *)
(***************************************************************************)
NotAFeature == {"Quantity", "revenue", "UnitPrice", "dLnP", "dLnQ"}

Confounders(names) == Without(names, not_features)

C17_FeatureNamesExcludeFive ==
    (env.session = "elasticity" /\ env.assigned \in {"R", "py"}) =>
        /\ env.feature_names = Confounders(env.demand_data)
        /\ \A k \in 1..Len(env.feature_names) : env.feature_names[k] \notin {"dLnQ", "dLnP"}
        /\ env.assigned = "R" =>
               /\ feature_names_py(env.demand_data).err = "none"
               /\ env.feature_names = feature_names_py(env.demand_data).v

\* what holds of the Python selection, where it succeeds
C17_PythonSelection ==
    (env.session = "elasticity" /\ env.assigned = "py") =>
        /\ env.feature_names = Confounders(env.demand_data)
        /\ \A k \in 1..Len(env.feature_names) : env.feature_names[k] \notin NotAFeature

(***************************************************************************)
(* pred_acc_plr of the R elasticity notebook, called on a fitted           *)
(* DoubleMLPLR model: outcome y, treatment d, coefficient theta and the    *)
(* prediction arrays ml_l and ml_m, [observation, repetition, treatment].  *)
(***************************************************************************)
PlrModel(y, d, theta, w, l, m) ==
    [y |-> y, d |-> d, coef |-> theta, n_obs |-> Len(y), n_rep |-> w,
     ml_l |-> l, ml_m |-> m]

\* repetition i of each nuisance shifted by i - 1
PlrFitted(M) ==
    \E n \in 1..MaxObs, w \in 1..MaxRep, theta \in ThetaVals :
        \E y \in [1..n -> YVals], d \in [1..n -> DBinary],
           bl \in [1..n -> GVals], bm \in [1..n -> GVals] :
            M = PlrModel(y, d, theta, w,
                         [j \in 1..n |-> [i \in 1..w |-> <<bl[j] + (i - 1)>>]],
                         [j \in 1..n |-> [i \in 1..w |-> <<bm[j] - (i - 1)>>]])

\* obj$predictions[[nuis]]: NULL (no element) for a name that is not stored
predictions(obj, nuis) ==
    IF nuis = "ml_l" THEN obj.ml_l ELSE IF nuis = "ml_m" THEN obj.ml_m ELSE <<>>

\* the elements of an array [observation, repetition, 1] as R lays them out,
\* the first index running fastest
as_vector(A) ==
    IF A = <<>> THEN <<>>
    ELSE LET n == Len(A)
         IN  [k \in 1..(n * Len(A[1])) |-> A[((k - 1) % n) + 1][((k - 1) \div n) + 1][1]]

\* export_pred: theta*d + ml_nuis for ml_l (d recycled over the repetitions),
\* ml_nuis for ml_m; not assigned for another name
export_pred_plr(obj, nuis) ==
    LET ml_nuis == predictions(obj, nuis)
    IN  IF nuis = "ml_l"
        THEN [j \in 1..Len(ml_nuis) |-> [i \in 1..Len(ml_nuis[j]) |->
                 <<obj.coef * obj.d[j] + ml_nuis[j][i][1]>>]]
        ELSE IF nuis = "ml_m" THEN ml_nuis
        ELSE <<>>

\* rmse = mlr3measures::rmse(y, ml_nuis); return(rmse)
pred_acc_plr(obj, nuis) ==
    LET ml_nuis == predictions(obj, nuis)
        scored == rmse(obj.y, as_vector(ml_nuis))
    IN  IF scored.err # "none" THEN Raised(scored.err) ELSE Returned(<<scored.v>>)

InitPlr ==
    /\ PlrFitted(model)
    /\ call = NoCall
    /\ out = NoOut
    /\ env = [session |-> "elasticity"]

RPredAccPlr(nuis) ==
    /\ call = NoCall
    /\ call' = [fn |-> "pred_acc_plr", lang |-> "R", prop |-> FALSE, nuis |-> nuis]
    /\ out' = pred_acc_plr(model, nuis)
    /\ UNCHANGED <<model, env>>

NextPlr ==
    \/ \E nuis \in NuisNames : RPredAccPlr(nuis)
    \/ Discard

SpecPlr == InitPlr /\ [][NextPlr]_vars

CalledPlr == call.fn = "pred_acc_plr"

\* the PLR model holding repetition i alone
OnlyRepetitionPlr(M, i) ==
    [M EXCEPT !.n_rep = 1,
              !.ml_l = [j \in 1..Len(M.ml_l) |-> <<M.ml_l[j][i]>>],
              !.ml_m = [j \in 1..Len(M.ml_m) |-> <<M.ml_m[j][i]>>]]

(***************************************************************************)
(* C18.  pred_acc_plr returns, for 'ml_l' and for 'ml_m', one RMSE per     *)
(* repetition of the model, element i being computed from the predictions  *)
(* of repetition i only.                                                   *)
(***************************************************************************)
C18_OneRmsePerRepetition ==
    (CalledPlr /\ call.nuis \in {"ml_l", "ml_m"}) =>
        /\ out.status = "ok"
        /\ Len(out.pred_acc) = model.n_rep
        /\ \A i \in 1..Len(out.pred_acc) :
               out.pred_acc[i] = pred_acc_plr(OnlyRepetitionPlr(model, i), call.nuis).pred_acc[1]

\* what holds: a model with one repetition gets one value
C18_SingleRepetition ==
    (CalledPlr /\ call.nuis \in {"ml_l", "ml_m"} /\ model.n_rep = 1) =>
        (out.status = "ok" /\ Len(out.pred_acc) = 1)

(***************************************************************************)
(* C19.  The RMSE returned by pred_acc_plr is the one between y and        *)
(* export_pred: theta*d + the ml_l predictions for nuis = 'ml_l', the ml_m *)
(* predictions for nuis = 'ml_m'.                                          *)
(***************************************************************************)
ExportedRmse(M, nuis, i) ==
    RootMeanSquare(M.y, [j \in 1..Len(M.y) |-> export_pred_plr(M, nuis)[j][i][1]])

C19_RmseOfExportPred ==
    (CalledPlr /\ out.status = "ok") =>
        \A i \in 1..Len(out.pred_acc) :
            out.pred_acc[i] = ExportedRmse(model, call.nuis, i)

\* what holds: the value is the RMSE between y and the stored predictions
C19_RmseOfStoredPredictions ==
    (CalledPlr /\ out.status = "ok") =>
        out.pred_acc = <<RootMeanSquare(model.y,
                           [j \in 1..Len(model.y) |-> predictions(model, call.nuis)[j][1][1]])>>

(***************************************************************************)
(* The uplift notebook: loading of the training data and of the data the   *)
(* policy tree is evaluated on.  A data file is modelled by the sequence   *)
(* of its rows; web gives the file behind each address.                    *)
(***************************************************************************)
url == "uplift_data.csv"

url_2 == "uplift_data_policy.csv"

DataFiles == UNION {[1..n -> RowVals] : n \in 1..MaxRows}

\* pd.read_csv(address)
read_csv(web, address) == web[address]

InitUplift ==
    /\ model = NoModel
    /\ call = NoCall
    /\ out = NoOut
    /\ \E web \in [{url, url_2} -> DataFiles] :
           env = [session |-> "uplift", web |-> web, cell |-> "start",
                  df |-> <<>>, df_policy |-> <<>>]

\* url = '.../uplift_data.csv'; df = pd.read_csv(url)
LoadTraining ==
    /\ env.session = "uplift" /\ env.cell = "start"
    /\ env' = [env EXCEPT !.cell = "df", !.df = read_csv(env.web, url)]
    /\ UNCHANGED <<model, call, out>>

\* url_2 = '.../uplift_data_policy.csv'; df_policy = pd.read_csv(url)
LoadPolicy ==
    /\ env.session = "uplift" /\ env.cell = "df"
    /\ env' = [env EXCEPT !.cell = "df_policy", !.df_policy = read_csv(env.web, url)]
    /\ UNCHANGED <<model, call, out>>

NextUplift == LoadTraining \/ LoadPolicy

SpecUplift == InitUplift /\ [][NextUplift]_vars

(***************************************************************************)
(* C20.  After the loading cell has run, df_policy holds the contents of   *)
(* url_2 (uplift_data_policy.csv), a source separate from url, whose       *)
(* contents df holds.                                                      *)
(***************************************************************************)
C20_PolicyDataFromSecondSource ==
    (env.session = "uplift" /\ env.cell = "df_policy") =>
        /\ env.df_policy = env.web[url_2]
        /\ env.df = env.web[url]

\* what holds: df_policy is a second copy of the training data
C20_PolicyDataIsTrainingData ==
    (env.session = "uplift" /\ env.cell = "df_policy") =>
        (env.df_policy = env.web[url] /\ env.df_policy = env.df)

(***************************************************************************)
(* C21.  The mode flag separates the two paths of pred_acc_irm: for a      *)
(* valid input the regression-mode result is the one obtained with any     *)
(* other propensity predictions m, and the propensity-mode result is the   *)
(* one obtained with any other y, g0 and g1 of the same shapes.            *)
(***************************************************************************)
\* M with every propensity prediction replaced by 0.5
OtherPropensities(M) ==
    [M EXCEPT !.ml_m = [j \in 1..Len(M.ml_m) |-> [i \in 1..M.n_rep |-> <<500>>]]]

\* M with every outcome and every regression prediction replaced by 1
OtherRegression(M) ==
    [M EXCEPT !.y = [j \in 1..Len(M.y) |-> 1],
              !.ml_g0 = [j \in 1..Len(M.ml_g0) |-> [i \in 1..M.n_rep |-> <<1>>]],
              !.ml_g1 = [j \in 1..Len(M.ml_g1) |-> [i \in 1..M.n_rep |-> <<1>>]]]

C21_ModeSeparatesPaths ==
    (CalledAcc /\ Regular(model)) =>
        /\ ~ call.prop => out = HelperOut(OtherPropensities(model), call)
        /\ call.prop => out = HelperOut(OtherRegression(model), call)

\* a regression-mode answer for a model whose propensity predictions, put
\* through the other path, would be scored
C21_Witness ==
    /\ CalledAcc /\ Regular(model) /\ ~ call.prop /\ out.status = "ok"
    /\ BothLabels(model.d)
    /\ \E j \in 1..Len(model.ml_m) : model.ml_m[j][1][1] # 500
    /\ OtherPropensities(model) # model

(***************************************************************************)
(* C22.  Regression mode, one binary treatment, matching dimensions: the   *)
(* R variant (d*g1 + (1-d)*g0, then RMSE by column) and the Python variant *)
(* (g0[j,i] where d[j] = 0, else g1[j,i], then RMSE by column) build the   *)
(* same blended matrix and return the same result for every repetition.    *)
(***************************************************************************)
OtherVariant(c) == [c EXCEPT !.lang = IF c.lang = "py" THEN "R" ELSE "py"]

C22_VariantsAgree ==
    (CalledAcc /\ ~ call.prop /\ Regular(model)) =>
        /\ export_pred(model).err = "none"
        /\ export_pred(model).v = export_pred_array(model)
        /\ out.status = "ok"
        /\ out = HelperOut(model, OtherVariant(call))

\* two observations in different arms, two repetitions, the arms predicting
\* differently everywhere
C22_Witness ==
    /\ CalledAcc /\ ~ call.prop /\ Regular(model) /\ out.status = "ok"
    /\ model.n_rep = 2 /\ Len(model.y) >= 2
    /\ model.d[1] # model.d[2]
    /\ \A j \in 1..Len(model.y), i \in 1..2 : model.ml_g0[j][i] # model.ml_g1[j][i]
    /\ out.pred_acc = pred_acc_irm_R(model, FALSE).pred_acc
    /\ out.pred_acc = pred_acc_irm_py(model, FALSE).pred_acc

(***************************************************************************)
(* The R elasticity notebook run top to bottom: initialisation of the      *)
(* three DoubleMLPLR models, their fits, their evaluation with             *)
(* pred_acc_plr and the table plr_rmse.  The state of R's random number    *)
(* generator is an integer; a draw moves it on by one, and what is drawn   *)
(* (a sample split) is identified with the state it is drawn from.         *)
(***************************************************************************)
Learners == {"lin_reg", "lasso", "forest"}

\* set.seed(123)
seed == 123

\* generator states the session may be in when the first model is initialised
RngStart == {0, 7, 123}

Cell(kind, name) == [kind |-> kind, name |-> name]

cells_evaluated_first ==
    <<Cell("new", "lin_reg"), Cell("new", "lasso"), Cell("new", "forest"),
      Cell("pred_acc_plr", "lin_reg"), Cell("fit", "lin_reg"),
      Cell("fit", "lasso"), Cell("fit", "forest"),
      Cell("pred_acc_plr", "lasso"), Cell("pred_acc_plr", "forest"),
      Cell("plr_rmse", "all")>>

\* the code cells of sections 4 to 6, in the order of the notebook
cells ==
    <<Cell("new", "lin_reg"), Cell("new", "lasso"), Cell("new", "forest"),
      Cell("fit", "lin_reg"), Cell("fit", "lasso"), Cell("fit", "forest"),
      Cell("pred_acc_plr", "lin_reg"), Cell("pred_acc_plr", "lasso"),
      Cell("pred_acc_plr", "forest"),
      Cell("plr_rmse", "all")>>

set_seed_ignored(rng, s) == rng

\* set.seed(s): the generator state is the one fixed by s
set_seed(rng, s) == s

\* the learner of a model draws random numbers when fitted (cross-validation
\* folds of cv_glmnet, trees of ranger), a linear model does not
FitDraws(name) == IF name = "lin_reg" THEN 0 ELSE 1

\* a DoubleMLPLR object before fit(): no coefficient, no predictions
Unfitted(y, d) == PlrModel(y, d, 0, 1, <<>>, <<>>)

NoRmse == [status |-> "none", err |-> "none", pred_acc |-> <<>>, plots |-> <<>>]

InitElasticity ==
    /\ model = NoModel
    /\ call = NoCall
    /\ out = NoOut
    /\ \E y \in YVals, d \in DBinary, r \in RngStart :
           env = [session |-> "elasticity", pc |-> 1, rng |-> r, halted |-> FALSE,
                  y |-> <<y>>, d |-> <<d>>,
                  dml_plr |-> [name \in Learners |->
                                  [initialised |-> FALSE, smpls |-> 0, fitted |-> FALSE,
                                   obj |-> Unfitted(<<y>>, <<d>>)]],
                  rmse |-> [name \in Learners |-> [ml_l |-> NoRmse, ml_m |-> NoRmse]],
                  plr_rmse |-> <<>>]

AtCell(kind, name) ==
    /\ "pc" \in DOMAIN env
    /\ ~ env.halted
    /\ env.pc <= Len(cells)
    /\ cells[env.pc] = Cell(kind, name)

\* set.seed(123); dml_plr_<name> = DoubleMLPLR$new(data_dml, ...): the
\* initialisation draws the sample split
NewDoubleMLPLR(name) ==
    /\ AtCell("new", name)
    /\ LET state == set_seed(env.rng, seed)
       IN  env' = [env EXCEPT !.pc = @ + 1, !.rng = state + 1,
                              !.dml_plr[name].initialised = TRUE,
                              !.dml_plr[name].smpls = state]
    /\ UNCHANGED <<model, call, out>>

\* dml_plr_<name>$fit(store_predictions = TRUE); an object that does not exist
\* stops the run
FitDoubleMLPLR(name) ==
    /\ AtCell("fit", name)
    /\ IF ~ env.dml_plr[name].initialised
       THEN env' = [env EXCEPT !.halted = TRUE]
       ELSE \E theta \in ThetaVals, l \in GVals :
               env' = [env EXCEPT !.pc = @ + 1, !.rng = @ + FitDraws(name),
                                  !.dml_plr[name].fitted = TRUE,
                                  !.dml_plr[name].obj =
                                      PlrModel(env.y, env.d, theta, 1, <<<<<<l>>>>>>, <<<<<<l - 1>>>>>>)]
    /\ UNCHANGED <<model, call, out>>

\* rmse_<name>_ml_l = pred_acc_plr(dml_plr_<name>, 'ml_l') and the same for
\* 'ml_m'; an error stops the run
EvaluateDoubleMLPLR(name) ==
    /\ AtCell("pred_acc_plr", name)
    /\ LET ml_l == pred_acc_plr(env.dml_plr[name].obj, "ml_l")
           ml_m == pred_acc_plr(env.dml_plr[name].obj, "ml_m")
       IN  IF ~ env.dml_plr[name].initialised \/ ml_l.status # "ok"
           THEN env' = [env EXCEPT !.halted = TRUE]
           ELSE IF ml_m.status # "ok"
           THEN env' = [env EXCEPT !.halted = TRUE, !.rmse[name].ml_l = ml_l]
           ELSE env' = [env EXCEPT !.pc = @ + 1, !.rmse[name].ml_l = ml_l,
                                   !.rmse[name].ml_m = ml_m]
    /\ UNCHANGED <<model, call, out>>

\* plr_rmse = data.table(... "RMSE" = c(rmse_lin_reg_ml_l, rmse_lasso_ml_l,
\* rmse_forest_ml_l, rmse_lin_reg_ml_m, rmse_lasso_ml_m, rmse_forest_ml_m) ...)
BuildPlrRmse ==
    /\ AtCell("plr_rmse", "all")
    /\ IF \E name \in Learners : env.rmse[name].ml_l.status # "ok"
                                    \/ env.rmse[name].ml_m.status # "ok"
       THEN env' = [env EXCEPT !.halted = TRUE]
       ELSE env' = [env EXCEPT !.pc = @ + 1,
                               !.plr_rmse = <<env.rmse["lin_reg"].ml_l.pred_acc[1],
                                              env.rmse["lasso"].ml_l.pred_acc[1],
                                              env.rmse["forest"].ml_l.pred_acc[1],
                                              env.rmse["lin_reg"].ml_m.pred_acc[1],
                                              env.rmse["lasso"].ml_m.pred_acc[1],
                                              env.rmse["forest"].ml_m.pred_acc[1]>>]
    /\ UNCHANGED <<model, call, out>>

NextElasticity ==
    \/ \E name \in Learners : NewDoubleMLPLR(name)
    \/ \E name \in Learners : FitDoubleMLPLR(name)
    \/ \E name \in Learners : EvaluateDoubleMLPLR(name)
    \/ BuildPlrRmse

SpecElasticity == InitElasticity /\ [][NextElasticity]_vars

Running == "pc" \in DOMAIN env

(***************************************************************************)
(* C23.  In the run from top to bottom no cell stops with an error; a      *)
(* model evaluated with pred_acc_plr has been fitted before and its        *)
(* predictions were there to read; when plr_rmse is built each of the      *)
(* three models has been evaluated for 'ml_l' and for 'ml_m'.              *)
(***************************************************************************)
Evaluated(name, nuis) == env.rmse[name][nuis].status # "none"

C23_FitBeforeEvaluationBeforeTable ==
    Running =>
        /\ ~ env.halted
        /\ \A name \in Learners, nuis \in {"ml_l", "ml_m"} :
               Evaluated(name, nuis) =>
                   /\ env.dml_plr[name].fitted
                   /\ predictions(env.dml_plr[name].obj, nuis) # <<>>
                   /\ env.rmse[name][nuis].status = "ok"
        /\ env.plr_rmse # <<>> =>
               /\ Len(env.plr_rmse) = 6
               /\ \A name \in Learners, nuis \in {"ml_l", "ml_m"} : Evaluated(name, nuis)

\* the table has been built from evaluations that differ between the models
C23_Witness ==
    /\ Running /\ env.plr_rmse # <<>>
    /\ env.pc = Len(cells) + 1
    /\ env.plr_rmse[1] # env.plr_rmse[2]
    /\ \A name \in Learners : env.dml_plr[name].fitted

(***************************************************************************)
(* C24.  Each of the three DoubleMLPLR models is initialised from the      *)
(* generator state fixed by set.seed(123), whatever the state of the       *)
(* generator was before its cell and whatever the cells before it drew:    *)
(* the three initialisations draw the same sample split.                   *)
(***************************************************************************)
Initialised == {name \in Learners : env.dml_plr[name].initialised}

C24_SameSeedBeforeEachInitialisation ==
    Running =>
        /\ \A name \in Initialised : env.dml_plr[name].smpls = seed
        /\ \A a, b \in Initialised : env.dml_plr[a].smpls = env.dml_plr[b].smpls

\* the three models are initialised, each initialisation having moved the
\* generator on
C24_Witness ==
    /\ Running /\ Initialised = Learners
    /\ env.pc = 4
    /\ env.rng # seed
    /\ env.dml_plr["lin_reg"].smpls = env.dml_plr["forest"].smpls

(***************************************************************************)
(* C25.  In the histograms of the Python variant a prediction lying on a   *)
(* bucket boundary is counted in exactly one bucket: k*0.04 in the bucket  *)
(* whose lower bound it is, 0 in the first bucket, 1 in the last; each     *)
(* count is the number of boundary values belonging to the bucket plus the *)
(* number of values strictly inside it.                                    *)
(***************************************************************************)
OnBoundary(p) == InUnit(p) /\ p % 40 = 0

\* the bucket a boundary value belongs to
BoundaryBucket(p) == IF p = 1000 THEN 25 ELSE p \div 40 + 1

StrictlyInside(p, b) == 40 * (b - 1) < p /\ p < 40 * b

C25_BoundaryInOneBucket ==
    (CalledPlot /\ call.lang = "py" /\ out.status = "ok") =>
        \A a \in 1..Len(out.plots) : \A x \in 1..Len(out.plots[a].hists) :
            LET col == PropColumn(model, a)
                counts == out.plots[a].hists[x].counts
            IN  \A b \in 1..25 :
                    counts[b] =
                        Cardinality({j \in 1..Len(col) :
                                        OnBoundary(col[j]) /\ BoundaryBucket(col[j]) = b})
                        + Cardinality({j \in 1..Len(col) : StrictlyInside(col[j], b)})

\* a repetition holding the interior edge 0.04 and the value 1
C25_Witness ==
    /\ CalledPlot /\ call.lang = "py" /\ out.status = "ok"
    /\ \E a \in 1..Len(out.plots) :
           /\ \E j \in 1..Len(model.ml_m) : model.ml_m[j][a][1] = 40
           /\ \E j \in 1..Len(model.ml_m) : model.ml_m[j][a][1] = 1000
           /\ out.plots[a].hists[1].counts[2] = 1
           /\ out.plots[a].hists[1].counts[1] = 0
           /\ out.plots[a].hists[1].counts[25] = 1

(***************************************************************************)
(* The uplift notebook's metric logloss(y_true, y_pred), handed to         *)
(* evaluate_learners: y_true holds NaN for the observations outside the    *)
(* learner's subsample, y_pred a predicted probability per observation.    *)
(***************************************************************************)
np_isnan(v) == v = NaN

\* x[subset] for a boolean array subset: the elements at the True positions, in
\* order; a mask of another length is an IndexError
RECURSIVE boolean_index_from(_, _, _)
boolean_index_from(x, subset, k) ==
    IF k > Len(x) THEN <<>>
    ELSE (IF subset[k] THEN <<x[k]>> ELSE <<>>) \o boolean_index_from(x, subset, k + 1)

boolean_index(x, subset) ==
    IF Len(subset) # Len(x) THEN Error("IndexError")
    ELSE Value(boolean_index_from(x, subset, 1))

uplift_logloss_leading(y_true, y_pred) ==
    LET subset == [j \in 1..Len(y_true) |-> ~ np_isnan(y_true[j])]
        truth == boolean_index(y_true, subset)
        pred == IF Len(y_pred) # Len(y_true) THEN Error("IndexError")
                ELSE Value(SubSeq(y_pred, 1, Len(truth.v)))
        scored == log_loss(truth.v, [j \in 1..Len(pred.v) |-> <<pred.v[j]>>], 0)
    IN  IF truth.err # "none" THEN Raised(truth.err)
        ELSE IF pred.err # "none" THEN Raised(pred.err)
        ELSE IF truth.v = <<>> THEN Raised("ValueError")
        ELSE IF scored.err # "none" THEN Raised(scored.err)
        ELSE Returned(<<scored.v>>)

\* subset = np.logical_not(np.isnan(y_true));
\* return log_loss(y_true[subset], y_pred[subset]).  log_loss refuses an empty
\* input; its default eps lies below the resolution of the probabilities
uplift_logloss(y_true, y_pred) ==
    LET subset == [j \in 1..Len(y_true) |-> ~ np_isnan(y_true[j])]
        truth == boolean_index(y_true, subset)
        pred == boolean_index(y_pred, subset)
        scored == log_loss(truth.v, [j \in 1..Len(pred.v) |-> <<pred.v[j]>>], 0)
    IN  IF truth.err # "none" THEN Raised(truth.err)
        ELSE IF pred.err # "none" THEN Raised(pred.err)
        ELSE IF truth.v = <<>> THEN Raised("ValueError")
        ELSE IF scored.err # "none" THEN Raised(scored.err)
        ELSE Returned(<<scored.v>>)

InitLogloss ==
    /\ model = NoModel
    /\ call = NoCall
    /\ out = NoOut
    /\ \E n \in 1..MaxScored : \E y_true \in [1..n -> TrueVals], y_pred \in [1..n -> PredVals] :
           env = [session |-> "uplift", y_true |-> y_true, y_pred |-> y_pred]

\* evaluate_learners(metric=logloss) calls the metric
UpliftLogloss ==
    /\ call = NoCall
    /\ "y_true" \in DOMAIN env
    /\ call' = [fn |-> "logloss", lang |-> "py", prop |-> TRUE]
    /\ out' = uplift_logloss(env.y_true, env.y_pred)
    /\ UNCHANGED <<model, env>>

NextLogloss == UpliftLogloss \/ Discard

SpecLogloss == InitLogloss /\ [][NextLogloss]_vars

(***************************************************************************)
(* C26.  logloss(y_true, y_pred) is the log-loss over exactly the          *)
(* observations whose y_true is not NaN, each paired with its own          *)
(* prediction: it is answered when those observations hold both labels,    *)
(* and the value is the mean over them of -log of the probability the      *)
(* observation's prediction gives to its label; predictions of             *)
(* observations with NaN y_true do not enter.                              *)
(***************************************************************************)
CalledLogloss == call.fn = "logloss"

NotNaN(y_true) == {j \in 1..Len(y_true) : y_true[j] # NaN}

\* -log of the probability observation j's prediction gives to its label, 0 for
\* an observation that is left out
OwnLoss(y_true, y_pred, j) ==
    IF y_true[j] = NaN THEN 0 ELSE NegLog(Observed(y_true[j], y_pred[j]))

C26_LoglossOverNonNaN ==
    CalledLogloss =>
        LET y_true == env.y_true
            y_pred == env.y_pred
        IN  /\ out.status = "ok" <=> {y_true[j] : j \in NotNaN(y_true)} = {0, 1}
            /\ out.status = "ok" =>
                   out.pred_acc =
                       <<SumSeq([j \in 1..Len(y_true) |-> OwnLoss(y_true, y_pred, j)])
                             \div Cardinality(NotNaN(y_true))>>
\* the first observation is left out, the others hold both labels and
\* predictions that differ from the one left out
C26_Witness ==
    /\ CalledLogloss /\ out.status = "ok"
    /\ env.y_true[1] = NaN
    /\ Len(env.y_true) = 3
    /\ env.y_pred[1] # env.y_pred[2] /\ env.y_pred[1] # env.y_pred[3]
    /\ env.y_pred[2] # env.y_pred[3]

(***************************************************************************)
(* The A/B-test notebooks: selection of the confounder columns.  df is     *)
(* modelled by the sequence of its column names, a column name by the      *)
(* sequence of its characters.                                             *)
(***************************************************************************)
ColY == <<"Y">>

ColA == <<"A">>

\* V1, V2, ...
ColV(i) == <<"V">> \o <<<<"1", "2", "3", "4", "5", "6", "7", "8", "9">>[i]>>

AbColumns(k) == {ColY, ColA} \cup {ColV(i) : i \in 1..k}

\* grep("V", x): the positions of the elements of x in which the pattern matches,
\* here the names holding the character V
RECURSIVE grep_V_from(_, _)
grep_V_from(x, k) ==
    IF k > Len(x) THEN <<>>
    ELSE (IF \E c \in 1..Len(x[k]) : x[k][c] = "V" THEN <<k>> ELSE <<>>)
         \o grep_V_from(x, k + 1)

grep_V(x) == grep_V_from(x, 1)

\* features_base = colnames(df)[grep("V", colnames(df))]
features_base_R(colnames) ==
    LET at == grep_V(colnames) IN [k \in 1..Len(at) |-> colnames[at[k]]]

features_base_py_from_second(columns) == SubSeq(columns, 2, Len(columns))

\* features_base = list(df.columns.values)[2:]
features_base_py(columns) == SubSeq(columns, 3, Len(columns))

InitAbTest ==
    /\ model = NoModel
    /\ call = NoCall
    /\ out = NoOut
    /\ \E k \in 1..MaxConfounders : \E columns \in [1..(k + 2) -> AbColumns(k)] :
           /\ \A a, b \in 1..(k + 2) : a # b => columns[a] # columns[b]
           /\ env = [session |-> "abtest", df |-> columns, assigned |-> "none",
                     features_base |-> <<>>]

RFeaturesBase ==
    /\ env.session = "abtest" /\ env.assigned = "none"
    /\ env' = [env EXCEPT !.assigned = "R", !.features_base = features_base_R(env.df)]
    /\ UNCHANGED <<model, call, out>>

PyFeaturesBase ==
    /\ env.session = "abtest" /\ env.assigned = "none"
    /\ env' = [env EXCEPT !.assigned = "py", !.features_base = features_base_py(env.df)]
    /\ UNCHANGED <<model, call, out>>

NextAbTest == RFeaturesBase \/ PyFeaturesBase

SpecAbTest == InitAbTest /\ [][NextAbTest]_vars

(***************************************************************************)
(* C27.  As claimed: for columns Y, A, V1..Vk in any order, features_base  *)
(* holds exactly the columns V1..Vk, never Y or A, and the R selection and *)
(* the Python selection yield the same set.                                *)
(***************************************************************************)
AbAssigned == env.session = "abtest" /\ env.assigned \in {"R", "py"}

Elements(s) == {s[k] : k \in 1..Len(s)}

VColumns(columns) == Elements(columns) \ {ColY, ColA}

C27_FeaturesBaseAnyOrder ==
    AbAssigned =>
        /\ Elements(env.features_base) = VColumns(env.df)
        /\ ColY \notin Elements(env.features_base)
        /\ ColA \notin Elements(env.features_base)
        /\ Elements(features_base_R(env.df)) = Elements(features_base_py(env.df))

(***************************************************************************)
(* C27, amended.  The R selection holds exactly the columns V1..Vk, in the *)
(* order of df, for every order of the columns.  The Python selection      *)
(* holds the columns from the third position on: it is exactly V1..Vk,     *)
(* and the list the R selection gives, when Y and A are the first two      *)
(* columns, and only then.                                                 *)
(***************************************************************************)
YAFirst(columns) == {columns[1], columns[2]} = {ColY, ColA}

C27_FeaturesBase ==
    AbAssigned =>
        /\ env.assigned = "R" =>
               /\ Elements(env.features_base) = VColumns(env.df)
               /\ env.features_base = Without(env.df, <<ColY, ColA>>)
        /\ env.assigned = "py" =>
               /\ Len(env.features_base) = Len(env.df) - 2
               /\ \A k \in 1..Len(env.features_base) : env.features_base[k] = env.df[k + 2]
               /\ YAFirst(env.df) <=> Elements(env.features_base) = VColumns(env.df)
               /\ YAFirst(env.df) <=> env.features_base = features_base_R(env.df)

\* A and Y lead, the confounders follow out of their numerical order
C27_Witness ==
    /\ AbAssigned /\ env.assigned = "py"
    /\ env.df[1] = ColA /\ env.df[2] = ColY
    /\ Len(env.df) = 5
    /\ env.df[3] = ColV(3)
    /\ env.features_base = features_base_R(env.df)
    /\ Len(env.features_base) = 3
====
